---- MODULE Spec2Model ----
(***************************************************************************)
(* Model of examples/rec_video_vae.py: the chunked codec driver            *)
(* (process_in_chunks), the frame sampler (read_video / _load_video), the  *)
(* shape normaliser (_format_video_shape) and the batch loop of main.      *)
(*                                                                         *)
(* A tensor is modelled by its time axis: a sequence of frames.  A frame   *)
(* is a record [src, nb]: src is the index of the input frame the value    *)
(* is (mostly) a reconstruction of, nb the number of blend operations the  *)
(* value went through.  The codec is taken to preserve the time length of  *)
(* the window it is given.                                                 *)
(***************************************************************************)
EXTENDS Integers, Sequences, FiniteSets

VARIABLES
    num_frames,     \* process_in_chunks: video_data.size(2)
    chunk_size,     \* process_in_chunks: argument
    overlap,        \* process_in_chunks: argument
    pc,             \* process_in_chunks: control position
    start,          \* process_in_chunks: window cursor
    output_chunks,  \* process_in_chunks: the reconstruction buffer
    window,         \* process_in_chunks: <<start, end, length>> of the last slice encoded
    seam,           \* process_in_chunks: <<tail, head>> of the last blend
    passes,         \* process_in_chunks: number of encode+decode passes
    blends,         \* process_in_chunks: number of blend operations
    result,         \* process_in_chunks: the returned tensor
    total_frames,   \* sampler: len(decord_vr)
    req_frames,     \* sampler: the num_frames requested
    sample_rate,    \* sampler: argument
    frame_id_list,  \* sampler: the indices handed to get_batch
    spc,            \* sampler: control position
    time,           \* _format_video_shape: video.shape[1]
    height,         \* _format_video_shape: video.shape[2]
    width,          \* _format_video_shape: video.shape[3]
    time_compress,  \* _format_video_shape: argument
    spatial_compress, \* _format_video_shape: argument
    shape,          \* _format_video_shape: <<time, height, width>> of the result
    fpc,            \* _format_video_shape: control position
    num_videos,     \* main: len(dataset)
    batch_size,     \* main: args.batch_size
    mpc,            \* main: control position
    cursor,         \* main: index of the next dataset item to load
    batch,          \* main: dataset indices of the batch at hand
    idx,            \* main: position in the batch of the next video to write
    written,        \* main: dataset indices whose video was written
    errored         \* main: dataset indices an error was raised for

chunkVars == <<num_frames, chunk_size, overlap, pc, start, output_chunks,
               window, seam, passes, blends, result>>

samplerVars == <<total_frames, req_frames, sample_rate, frame_id_list, spc>>

shapeVars == <<time, height, width, time_compress, spatial_compress, shape, fpc>>

mainVars == <<num_videos, batch_size, mpc, cursor, batch, idx, written, errored>>

vars == <<chunkVars, samplerVars, shapeVars, mainVars>>

----------------------------------------------------------------------------
\* Bounds of the model.
MaxFrames == 40
MaxChunk == 16
MaxOverlap == 4
\* a run that makes more passes than there are frames does not terminate;
\* it is followed for MaxPasses passes
MaxPasses == MaxFrames + 1
MaxTotal == 20
MaxRequest == 23
MaxRate == 3
MaxTime == 18
MaxSide == 4
MaxTimeCompress == 4
MaxSpatialCompress == 2
MaxVideos == 5
MaxBatch == 3

Min(a, b) == IF a < b THEN a ELSE b
Max(a, b) == IF a > b THEN a ELSE b

----------------------------------------------------------------------------
\* Python / torch slicing on one axis.

\* A slice bound i on an axis of length n: negative bounds count from the
\* end, and bounds outside the axis are clipped.
SliceBound(i, n) == IF i < 0 THEN Max(i + n, 0) ELSE Min(i, n)

\* s[lo:hi]
Slice(s, lo, hi) ==
    LET a == SliceBound(lo, Len(s))
        b == SliceBound(hi, Len(s))
    IN  IF a < b THEN SubSeq(s, a + 1, b) ELSE << >>

\* s[lo:]
SliceFrom(s, lo) == Slice(s, lo, Len(s))

\* s[:hi]
SliceTo(s, hi) == Slice(s, 0, hi)

\* torch.cat along the time axis of a list of tensors
RECURSIVE Cat(_)
Cat(chunks) ==
    IF chunks = << >> THEN << >>
    ELSE Head(chunks) \o Cat(Tail(chunks))

----------------------------------------------------------------------------
\* process_in_chunks

\* video_data: T input frames, numbered from 0
VideoData(T) == [i \in 1..T |-> i - 1]

\* faulty variant of the assertion: the key frame is not subtracted
GuardWrongModulus(cs, ov) == (cs + ov) % 4 = 0

\* the assertion at the head of process_in_chunks
GuardOK(cs, ov) == (cs + ov - 1) % 4 = 0

\* end of the window that starts at st
WindowEnd(st, cs, ov, T) ==
    LET end == Min(st + cs, T)
    IN  IF st + cs + ov < T THEN end + ov ELSE end

\* model.decode(model.encode(chunk).sample()): one decoded frame per frame
\* of the window, not blended yet
Recon(chunk) == [i \in 1..Len(chunk) |-> [src |-> chunk[i], nb |-> 0]]

\* one frame of  a * 1/4 + b * 3/4
BlendFrame(a, b) == [src |-> b.src, nb |-> Max(a.nb, b.nb) + 1]

\* the time lengths la and lb broadcast against each other
Broadcastable(la, lb) == la = lb \/ la = 1 \/ lb = 1

BroadcastLen(la, lb) == IF la = lb THEN la ELSE IF la = 1 THEN lb ELSE la

\* tail * 1/4 + head * 3/4 with broadcasting along the time axis
BlendTensor(tail, head) ==
    [i \in 1..BroadcastLen(Len(tail), Len(head)) |->
        BlendFrame(IF Len(tail) = 1 THEN tail[1] ELSE tail[i],
                   IF Len(head) = 1 THEN head[1] ELSE head[i])]

\* faulty variant of the stitch: the new chunk is concatenated to the last
\* entry instead of being appended as an entry of its own
StitchMerged(chunks, blended, recon, ov, end, T) ==
    LET n == Len(chunks)
    IN  [chunks EXCEPT ![n] = SliceTo(chunks[n], -ov) \o blended
                                \o (IF end < T THEN SliceFrom(recon, ov) ELSE recon)]

\* the buffer after the blend: the last entry loses its last `overlap`
\* frames and gets the blended region, and the new chunk is appended
\* (without its first `overlap` frames unless it is the final window)
Stitch(chunks, blended, recon, ov, end, T) ==
    LET n == Len(chunks)
        prev == SliceTo(chunks[n], -ov) \o blended
    IN  Append([chunks EXCEPT ![n] = prev],
               IF end < T THEN SliceFrom(recon, ov) ELSE recon)

\* faulty variant of the advance: the cursor jumps to the end of the
\* (possibly extended) window
AdvanceToEnd(st, cs, end) == end

\* start += chunk_size
Advance(st, cs, end) == st + cs

\* no tensor has been returned
NoTensor == << >>

\* the routines that are not running
ChunksIdle ==
    /\ num_frames = 0 /\ chunk_size = 0 /\ overlap = 0 /\ pc = "idle"
    /\ start = 0 /\ output_chunks = << >> /\ window = << >> /\ seam = << >>
    /\ passes = 0 /\ blends = 0 /\ result = NoTensor

SamplerIdle ==
    /\ total_frames = 0 /\ req_frames = 0 /\ sample_rate = 0
    /\ frame_id_list = << >> /\ spc = "idle"

ShapeIdle ==
    /\ time = 0 /\ height = 0 /\ width = 0 /\ time_compress = 0
    /\ spatial_compress = 0 /\ shape = << >> /\ fpc = "idle"

MainIdle ==
    /\ num_videos = 0 /\ batch_size = 0 /\ mpc = "idle" /\ cursor = 0
    /\ batch = << >> /\ idx = 0 /\ written = {} /\ errored = {}

InitChunks ==
    /\ SamplerIdle /\ ShapeIdle /\ MainIdle
    /\ num_frames \in 0..MaxFrames
    /\ chunk_size \in 0..MaxChunk
    /\ overlap \in 0..MaxOverlap
    /\ pc = "assert"
    /\ start = 0
    /\ output_chunks = << >>
    /\ window = << >>
    /\ seam = << >>
    /\ passes = 0
    /\ blends = 0
    /\ result = NoTensor

\* assert (chunk_size + overlap - 1) % 4 == 0, then the set-up of the loop
CheckGuard ==
    /\ pc = "assert"
    /\ pc' = IF GuardOK(chunk_size, overlap) THEN "loop" ELSE "assert_failed"
    /\ UNCHANGED <<num_frames, chunk_size, overlap, start, output_chunks,
                   window, seam, passes, blends, result>>
    /\ UNCHANGED <<samplerVars, shapeVars, mainVars>>

\* one iteration of the while loop
Window ==
    /\ pc = "loop"
    /\ start < num_frames
    /\ passes < MaxPasses
    /\ LET end == WindowEnd(start, chunk_size, overlap, num_frames)
           chunk == Slice(VideoData(num_frames), start, end)
           recon_chunk == Recon(chunk)
       IN  /\ window' = <<start, end, Len(chunk)>>
           /\ passes' = passes + 1
           /\ IF output_chunks # << >>
              THEN LET last == output_chunks[Len(output_chunks)]
                       overlap_step == Min(overlap, Len(recon_chunk))
                       tail == SliceFrom(last, -overlap_step)
                       head == SliceTo(recon_chunk, overlap_step)
                   IN  IF Broadcastable(Len(tail), Len(head))
                       THEN /\ seam' = <<tail, head>>
                            /\ blends' = blends + 1
                            /\ output_chunks' =
                                  Stitch(output_chunks, BlendTensor(tail, head),
                                         recon_chunk, overlap, end, num_frames)
                            /\ start' = Advance(start, chunk_size, end)
                            /\ pc' = "loop"
                       ELSE /\ pc' = "shape_error"
                            /\ UNCHANGED <<seam, blends, output_chunks, start>>
              ELSE /\ output_chunks' = Append(output_chunks, recon_chunk)
                   /\ start' = Advance(start, chunk_size, end)
                   /\ pc' = "loop"
                   /\ UNCHANGED <<seam, blends>>
    /\ UNCHANGED <<num_frames, chunk_size, overlap, result>>
    /\ UNCHANGED <<samplerVars, shapeVars, mainVars>>

\* the loop condition fails: return torch.cat(output_chunks, dim=2)
Return ==
    /\ pc = "loop"
    /\ start >= num_frames
    /\ IF output_chunks = << >>
       THEN /\ pc' = "cat_error"
            /\ UNCHANGED result
       ELSE /\ pc' = "returned"
            /\ result' = Cat(output_chunks)
    /\ UNCHANGED <<num_frames, chunk_size, overlap, start, output_chunks,
                   window, seam, passes, blends>>
    /\ UNCHANGED <<samplerVars, shapeVars, mainVars>>

NextChunks == CheckGuard \/ Window \/ Return

SpecChunks == InitChunks /\ [][NextChunks]_vars

----------------------------------------------------------------------------
\* Properties of process_in_chunks

\* C1: for chunk_size >= 1 and overlap >= 1 accepted by the assertion, the
\* time length of the returned tensor never exceeds the input length T.
C1_OutputWithinInput ==
    (pc = "returned" /\ chunk_size >= 1 /\ overlap >= 1)
        => Len(result) <= num_frames

\* C2: at every blend, the i-th frame of the tail taken from the previous
\* buffer entry and the i-th frame of the head of the current chunk are
\* reconstructions of the same input frame, for every i < overlap_step.
C2_SeamAligned ==
    (seam # << >> /\ overlap >= 1 /\ chunk_size >= overlap) =>
        \A i \in 1..Len(seam[2]) :
            /\ i <= Len(seam[1])
            /\ seam[1][i].src = seam[2][i].src

\* every frame of the buffer and of the returned tensor went through at
\* most one blend
BlendedAtMostOnce ==
    /\ \A k \in 1..Len(output_chunks) :
          \A i \in 1..Len(output_chunks[k]) : output_chunks[k][i].nb <= 1
    /\ \A i \in 1..Len(result) : result[i].nb <= 1

\* an entry that has a successor in the buffer is never modified again
EarlierEntriesFinal ==
    \A k \in 1..(Len(output_chunks) - 1) :
        /\ Len(output_chunks') >= k
        /\ output_chunks'[k] = output_chunks[k]

\* only the tail of the last entry is rewritten: the frames before its
\* last `overlap` frames stay
OnlyTailRewritten ==
    (output_chunks # << >> /\ output_chunks' # output_chunks) =>
        LET n == Len(output_chunks)
            keep == SliceTo(output_chunks[n], -overlap)
        IN  SliceTo(output_chunks'[n], Len(keep)) = keep

\* an entry enters the buffer made of unblended decoded frames
NewEntryUnblended ==
    Len(output_chunks') > Len(output_chunks) =>
        LET e == output_chunks'[Len(output_chunks')]
        IN  \A i \in 1..Len(e) : e[i].nb = 0

\* C3: no frame position of the output is the result of more than one
\* blend: an entry is created from unblended frames, only its tail is
\* blended, once, when the next chunk arrives, and it is final afterwards.
C3_SingleSeamTouch ==
    /\ []BlendedAtMostOnce
    /\ [][EarlierEntriesFinal /\ OnlyTailRewritten /\ NewEntryUnblended]_vars

\* a run with two seams: the first entry carries blended frames and has
\* been left behind by two later chunks
C3_Witness ==
    /\ blends >= 2
    /\ Len(output_chunks) >= 3
    /\ \E i \in 1..Len(output_chunks[1]) : output_chunks[1][i].nb = 1

C4_Case == num_frames = 40 /\ chunk_size = 13 /\ overlap = 4

\* C4 (as stated): 40 frames with chunk_size 13 and overlap 4 take exactly
\* 3 codec passes and 2 blends.
C4_ThreePassesTwoBlends ==
    (C4_Case /\ pc = "returned") => (passes = 3 /\ blends = 2)

\* C4 (amended): 40 frames with chunk_size 13 and overlap 4 take exactly
\* 4 codec passes and 3 blends before the return.
C4_FourPassesThreeBlends ==
    (C4_Case /\ pc = "returned") => (passes = 4 /\ blends = 3)

C4_Witness == C4_Case /\ pc = "returned" /\ Len(output_chunks) = 4

\* C7: when (chunk_size + overlap - 1) mod 4 # 0 the call fails at the
\* assertion: no encode or decode is made and nothing is produced.
C7_GuardBeforeCodec ==
    (chunk_size + overlap - 1) % 4 # 0 =>
        /\ pc \in {"assert", "assert_failed"}
        /\ passes = 0
        /\ blends = 0
        /\ output_chunks = << >>
        /\ result = NoTensor

C7_Witness ==
    /\ num_frames = 40 /\ chunk_size = 16 /\ overlap = 4
    /\ pc = "assert_failed"

\* C9: whenever the assertion passes, every window [start, end) handed to
\* model.encode has a length L = end - start with (L - 1) mod 4 = 0.
C9_WindowRespectsCompression ==
    (window # << >> /\ num_frames >= 1 /\ chunk_size >= 1 /\ overlap >= 1) =>
        /\ window[3] = window[2] - window[1]
        /\ (window[3] - 1) % 4 = 0

\* C10: for every combination accepted by the assertion the window loop
\* terminates with the return of the concatenated buffer: every pass of
\* the loop body moves the cursor strictly closer to T and ends normally,
\* so that start >= T after finitely many passes.
C10_LoopTerminates ==
    [][passes' # passes => (start' > start /\ pc' = "loop")]_vars

----------------------------------------------------------------------------
\* Frame sampler: read_video and RealVideoDataset._load_video

\* IEEE double arithmetic, as far as the sampler uses it.  A positive
\* double is a record [exp, bits]: bits are the 53 bits of the significand,
\* the first one worth 2^exp; zero is NoDouble.
Precision == 53

Pow2(n) == 2 ^ n

NoDouble == [exp |-> 0, bits |-> << >>]

\* x^n mod m, by repeated squaring
RECURSIVE PowMod(_, _, _)
PowMod(x, n, m) ==
    IF n = 0 THEN 1 % m
    ELSE LET h == PowMod(x, n \div 2, m)
             hh == (h * h) % m
         IN  IF n % 2 = 0 THEN hh ELSE (hh * x) % m

\* the remainder left after n bits of the binary expansion of r / b, for
\* 0 <= r < b
QuotientRest(r, b, n) == (r * PowMod(2, n, b)) % b

\* the next n bits of the binary expansion of r / b, for 0 <= r < b
QuotientBits(r, b, n) ==
    [i \in 1..n |-> IF 2 * QuotientRest(r, b, i - 1) >= b THEN 1 ELSE 0]

\* the binary digits of a natural number, most significant first
RECURSIVE IntToBits(_)
IntToBits(n) == IF n = 0 THEN << >> ELSE IntToBits(n \div 2) \o <<n % 2>>

RECURSIVE BitsToInt(_)
BitsToInt(bits) ==
    IF bits = << >> THEN 0
    ELSE 2 * BitsToInt(SubSeq(bits, 1, Len(bits) - 1)) + bits[Len(bits)]

\* the bits without their leading zeros
StripZeros(bits) ==
    IF \A i \in 1..Len(bits) : bits[i] = 0 THEN << >>
    ELSE LET first == CHOOSE i \in 1..Len(bits) :
                         bits[i] = 1 /\ \A j \in 1..(i - 1) : bits[j] = 0
         IN  SubSeq(bits, first, Len(bits))

\* the bits plus one unit in the last place, for bits that are not all ones
IncrementBits(bits) ==
    LET last == CHOOSE i \in 1..Len(bits) :
                    bits[i] = 0 /\ \A j \in (i + 1)..Len(bits) : bits[j] = 1
    IN  [i \in 1..Len(bits) |->
            IF i < last THEN bits[i] ELSE IF i = last THEN 1 ELSE 0]

\* round to nearest, ties to even: the double nearest to the number whose
\* binary digits are `bits` (first one worth 2^exp) followed, if sticky,
\* by something nonzero
RoundToDouble(bits, sticky, exp) ==
    IF Len(bits) <= Precision
    THEN [exp |-> exp, bits |-> bits \o [i \in 1..(Precision - Len(bits)) |-> 0]]
    ELSE LET keep == SubSeq(bits, 1, Precision)
             guard == bits[Precision + 1]
             rest == sticky \/ \E i \in (Precision + 2)..Len(bits) : bits[i] = 1
             up == guard = 1 /\ (rest \/ keep[Precision] = 1)
             ones == \A i \in 1..Precision : keep[i] = 1
         IN  IF ~up THEN [exp |-> exp, bits |-> keep]
             ELSE IF ones
                  THEN [exp |-> exp + 1,
                        bits |-> <<1>> \o [i \in 1..(Precision - 1) |-> 0]]
                  ELSE [exp |-> exp, bits |-> IncrementBits(keep)]

\* the largest k with b * 2^k <= a, for a >= b >= 1
RECURSIVE ShiftUp(_, _)
ShiftUp(a, b) == IF 2 * b <= a THEN 1 + ShiftUp(a, 2 * b) ELSE 0

\* the smallest j with a * 2^j >= b, for a >= 1
RECURSIVE ShiftDown(_, _)
ShiftDown(a, b) == IF a < b THEN 1 + ShiftDown(2 * a, b) ELSE 0

\* a / b in doubles, for naturals a and b >= 1
DoubleDiv(a, b) ==
    IF a = 0 THEN NoDouble
    ELSE LET k == IF a >= b THEN ShiftUp(a, b) ELSE 0
             j == IF a >= b THEN 0 ELSE ShiftDown(a, b)
             aa == a * Pow2(j)
             bb == b * Pow2(k)
         IN  RoundToDouble(<<1>> \o QuotientBits(aa - bb, bb, Precision),
                           QuotientRest(aa - bb, bb, Precision) # 0,
                           k - j)

\* long multiplication works on limbs of LimbBits bits
LimbBits == 8

\* the limbs of the number whose binary digits are bits, most significant
\* first
Limbs(bits) ==
    LET count == (Len(bits) + LimbBits - 1) \div LimbBits
        padded == [i \in 1..(count * LimbBits - Len(bits)) |-> 0] \o bits
    IN  [k \in 1..count |->
            BitsToInt(SubSeq(padded, (k - 1) * LimbBits + 1, k * LimbBits))]

\* the LimbBits binary digits of a limb
LimbToBits(v) ==
    [j \in 1..LimbBits |-> (v \div Pow2(LimbBits - j)) % 2]

\* the binary digits of (limbs as a number) * i + carry
RECURSIVE MulLimbs(_, _, _)
MulLimbs(limbs, i, carry) ==
    IF limbs = << >> THEN IntToBits(carry)
    ELSE LET t == limbs[Len(limbs)] * i + carry
         IN  MulLimbs(SubSeq(limbs, 1, Len(limbs) - 1), i, t \div Pow2(LimbBits))
                \o LimbToBits(t % Pow2(LimbBits))

\* the binary digits of (bits as a number) * i
MulBits(bits, i) == StripZeros(MulLimbs(Limbs(bits), i, 0))

\* d * i in doubles, for a double d and a natural i
DoubleMul(d, i) ==
    IF d = NoDouble \/ i = 0 THEN NoDouble
    ELSE LET product == MulBits(d.bits, i)
         IN  RoundToDouble(product, FALSE, d.exp + Len(product) - Precision)

\* floor (and int()) of a double that is not negative
DoubleFloor(d) ==
    IF d = NoDouble \/ d.exp < 0 THEN 0
    ELSE IF d.exp + 1 <= Precision
         THEN BitsToInt(SubSeq(d.bits, 1, d.exp + 1))
         ELSE BitsToInt(d.bits) * Pow2(d.exp + 1 - Precision)

\* floor of minus a double that is not negative
DoubleFloorNeg(d) ==
    LET whole == d # NoDouble =>
                    \A i \in 1..Precision : i > d.exp + 1 => d.bits[i] = 0
    IN  IF whole THEN 0 - DoubleFloor(d) ELSE 0 - DoubleFloor(d) - 1

\* np.linspace(0, stop, num, dtype=int), the start s being 0 in both
\* branches: step = stop / (num - 1) in doubles, the i-th value is the floor
\* of the double i * step, and the last value is set to stop
Linspace(stop, num) ==
    IF num <= 0 THEN << >>
    ELSE IF num = 1 THEN <<0>>
    ELSE LET step == DoubleDiv(IF stop < 0 THEN 0 - stop ELSE stop, num - 1)
         IN  [i \in 1..num |->
                IF i = num THEN stop
                ELSE IF stop < 0 THEN DoubleFloorNeg(DoubleMul(step, i - 1))
                ELSE DoubleFloor(DoubleMul(step, i - 1))]

\* faulty variant of the short branch: the requested count is kept
NoReduction(total, nf, sr) == nf

\* int(total_frames / sample_frames_len * num_frames) of the short branch:
\* the division and the multiplication are made in doubles, so the count
\* can fall one short of total_frames / sample_rate
EffectiveNumFrames(total, nf, sr) ==
    DoubleFloor(DoubleMul(DoubleDiv(total, sr * nf), nf))

InitSampler ==
    /\ ChunksIdle /\ ShapeIdle /\ MainIdle
    /\ total_frames \in 0..MaxTotal
    /\ req_frames \in 1..MaxRequest
    /\ sample_rate \in 1..MaxRate
    /\ frame_id_list = << >>
    /\ spc = "call"

\* total_frames > sample_frames_len: the first sample_frames_len frames
SampleLong ==
    /\ spc = "call"
    /\ total_frames > sample_rate * req_frames
    /\ LET s == 0
           e == s + sample_rate * req_frames
       IN  frame_id_list' = Linspace(e - 1, req_frames)
    /\ spc' = "sampled"
    /\ UNCHANGED <<total_frames, req_frames, sample_rate>>
    /\ UNCHANGED <<chunkVars, shapeVars, mainVars>>

\* otherwise: the whole video, with a reduced number of frames
SampleShort ==
    /\ spc = "call"
    /\ ~(total_frames > sample_rate * req_frames)
    /\ LET s == 0
           e == total_frames
           n == EffectiveNumFrames(total_frames, req_frames, sample_rate)
       IN  frame_id_list' = Linspace(e - 1, n)
    /\ spc' = "sampled"
    /\ UNCHANGED <<total_frames, req_frames, sample_rate>>
    /\ UNCHANGED <<chunkVars, shapeVars, mainVars>>

NextSampler == SampleLong \/ SampleShort

SpecSampler == InitSampler /\ [][NextSampler]_vars

\* C6: for total_frames >= 1, num_frames >= 1 and sample_rate >= 1 the
\* frame index list holds only indices in [0, total_frames) and is
\* strictly increasing, in the long and in the short branch.
C6_IndicesInRangeIncreasing ==
    (spc = "sampled" /\ total_frames >= 1) =>
        /\ \A i \in 1..Len(frame_id_list) :
              0 <= frame_id_list[i] /\ frame_id_list[i] < total_frames
        /\ \A i \in 1..(Len(frame_id_list) - 1) :
              frame_id_list[i] < frame_id_list[i + 1]

\* the short branch on a 15-frame video asked for 22 frames: the count in
\* doubles is 14, and the 14 indices run from 0 to 14
C6_Witness ==
    /\ spc = "sampled"
    /\ total_frames = 15 /\ req_frames = 22 /\ sample_rate = 1
    /\ Len(frame_id_list) = 14
    /\ frame_id_list[13] = 12
    /\ frame_id_list[14] = 14

----------------------------------------------------------------------------
\* Shape normaliser: _format_video_shape

NewTime(t, tc) == IF (t - 1) % tc # 0 THEN (t - 1) - ((t - 1) % tc) ELSE t

NewSide(d, sc) == IF d % sc # 0 THEN d - (d % sc) ELSE d

InitShape ==
    /\ ChunksIdle /\ SamplerIdle /\ MainIdle
    /\ time \in 0..MaxTime
    /\ height \in 1..MaxSide
    /\ width \in 1..MaxSide
    /\ time_compress \in 1..MaxTimeCompress
    /\ spatial_compress \in 1..MaxSpatialCompress
    /\ shape = << >>
    /\ fpc = "call"

\* return video[:, :new_time, :new_height, :new_width]
FormatVideoShape ==
    /\ fpc = "call"
    /\ LET new_time == NewTime(time, time_compress)
           new_height == NewSide(height, spatial_compress)
           new_width == NewSide(width, spatial_compress)
       IN  shape' = <<SliceBound(new_time, time),
                      SliceBound(new_height, height),
                      SliceBound(new_width, width)>>
    /\ fpc' = "returned"
    /\ UNCHANGED <<time, height, width, time_compress, spatial_compress>>
    /\ UNCHANGED <<chunkVars, samplerVars, mainVars>>

NextShape == FormatVideoShape

SpecShape == InitShape /\ [][NextShape]_vars

\* C5: for every input time length >= 1 and every temporal compression
\* factor tc >= 1 the returned tensor has a time length L with
\* (L - 1) mod tc = 0.
C5_TimeRespectsCompression ==
    (fpc = "returned" /\ time >= 1) => (shape[1] - 1) % time_compress = 0

----------------------------------------------------------------------------
\* The batch loop of main

\* an exception raised in the body of `for batch in tqdm(dataloader)`:
\* nothing catches it, main is left
Uncaught(resume) == "aborted"

\* dataset indices of the batch that starts at item c
BatchAt(c, bs, n) == [i \in 1..Min(bs, n - c) |-> c + i - 1]

SeqRange(q) == {q[i] : i \in 1..Len(q)}

InitMain ==
    /\ ChunksIdle /\ SamplerIdle /\ ShapeIdle
    /\ num_videos \in 1..MaxVideos
    /\ batch_size \in 1..MaxBatch
    /\ mpc = "fetch"
    /\ cursor = 0
    /\ batch = << >>
    /\ idx = 0
    /\ written = {}
    /\ errored = {}

\* the loader yields the next batch, or one of its items fails to load
FetchBatch ==
    /\ mpc = "fetch"
    /\ cursor < num_videos
    /\ LET b == BatchAt(cursor, batch_size, num_videos)
       IN  /\ cursor' = cursor + Len(b)
           /\ \/ /\ batch' = b
                 /\ idx' = 0
                 /\ mpc' = "codec"
                 /\ UNCHANGED errored
              \/ \E i \in 1..Len(b) :
                    /\ errored' = errored \cup {b[i]}
                    /\ mpc' = Uncaught("fetch")
                    /\ UNCHANGED <<batch, idx>>
    /\ UNCHANGED <<num_videos, batch_size, written>>
    /\ UNCHANGED <<chunkVars, samplerVars, shapeVars>>

\* vqvae.encode / vqvae.decode on the batch, which may raise
EncodeDecode ==
    /\ mpc = "codec"
    /\ \/ /\ mpc' = "write"
          /\ UNCHANGED errored
       \/ /\ errored' = errored \cup SeqRange(batch)
          /\ mpc' = Uncaught("fetch")
    /\ UNCHANGED <<num_videos, batch_size, cursor, batch, idx, written>>
    /\ UNCHANGED <<chunkVars, samplerVars, shapeVars>>

\* custom_to_video on the next video of the batch, which may raise
WriteVideo ==
    /\ mpc = "write"
    /\ idx < Len(batch)
    /\ \/ /\ written' = written \cup {batch[idx + 1]}
          /\ idx' = idx + 1
          /\ mpc' = IF idx + 1 < Len(batch) THEN "write" ELSE "fetch"
          /\ UNCHANGED errored
       \/ /\ errored' = errored \cup {batch[idx + 1]}
          /\ mpc' = Uncaught("fetch")
          /\ UNCHANGED <<written, idx>>
    /\ UNCHANGED <<num_videos, batch_size, cursor, batch>>
    /\ UNCHANGED <<chunkVars, samplerVars, shapeVars>>

\* the loader is exhausted: main returns
Finish ==
    /\ mpc = "fetch"
    /\ cursor >= num_videos
    /\ mpc' = "done"
    /\ UNCHANGED <<num_videos, batch_size, cursor, batch, idx, written, errored>>
    /\ UNCHANGED <<chunkVars, samplerVars, shapeVars>>

NextMain == FetchBatch \/ EncodeDecode \/ WriteVideo \/ Finish

SpecMain == InitMain /\ [][NextMain]_vars

Items == 0..(num_videos - 1)

\* C8: an error raised for one item does not end the batch
\* loop: when main has stopped, every item after an item that raised was
\* processed (written, or it raised itself).
C8_LaterItemsProcessed ==
    mpc \in {"done", "aborted"} =>
        \A i \in Items :
            (\E j \in errored : j < i) => i \in written \cup errored

====
